---- MODULE Spec2Model ----
(***************************************************************************)
(* Voice appointment booking (src/app.py): the call-session flow driven by *)
(* the telephony webhooks /voice, /process_query, /book_slot, /fallback,   *)
(* the REST endpoints /api/slots and /api/book, and the "appointments"     *)
(* table they share.  Every store query (one .execute()) is one atomic     *)
(* step; a handler that issues two queries is two steps, so that other     *)
(* requests can run between them.                                          *)
(***************************************************************************)
EXTENDS Integers, Sequences, FiniteSets, TLC

\* ------------------------------------------------------------- bounds
NumSlots == 5
NumCalls == 2
NumReqs  == 1
MaxClock == 0

\* ---------------------------------------------------- program constants
MenuLimit == 4
MaxDigit  == 4

SlotIds == 1..NumSlots
Calls   == 1..NumCalls
Reqs    == 1..NumReqs
\* slot ids an API client may name: three rows of the table and an absent id
RequestedIds == {1, 2, NumSlots, NumSlots + 1}

NoHolder == <<>>
CallSid(c) == <<"CA", c>>
PriorSid   == <<"CA", 0>>

\* ------------------------------------------------- text inputs (strings)
\* A string is the sequence of its Unicode code points ("Book" is
\* <<66, 111, 111, 107>>).  The tables below are those of the Unicode
\* database the interpreter carries (version 14.0.0).

\* SpeechResult = None: the form field was not posted.
SpeechNone == <<-1>>

\* Is code point ch in one of the ranges <<lo, hi>> of R?
InRanges(ch, R) ==
    \E n \in 1..Len(R) : R[n][1] <= ch /\ ch <= R[n][2]

\* The code points that have a lower-case form of one code point, as
\* <<lo, hi, step, delta>>: every step-th code point from lo to hi has the
\* lower-case form ch + delta.
LowerRanges ==
    << <<65, 90, 1, 32>>, <<192, 214, 1, 32>>, <<216, 222, 1, 32>>, <<256, 302, 2, 1>>,
       <<306, 310, 2, 1>>, <<313, 327, 2, 1>>, <<330, 374, 2, 1>>, <<376, 376, 1, -121>>,
       <<377, 381, 2, 1>>, <<385, 385, 1, 210>>, <<386, 388, 2, 1>>, <<390, 390, 1, 206>>,
       <<391, 391, 1, 1>>, <<393, 394, 1, 205>>, <<395, 395, 1, 1>>, <<398, 398, 1, 79>>,
       <<399, 399, 1, 202>>, <<400, 400, 1, 203>>, <<401, 401, 1, 1>>, <<403, 403, 1, 205>>,
       <<404, 404, 1, 207>>, <<406, 406, 1, 211>>, <<407, 407, 1, 209>>, <<408, 408, 1, 1>>,
       <<412, 412, 1, 211>>, <<413, 413, 1, 213>>, <<415, 415, 1, 214>>, <<416, 420, 2, 1>>,
       <<422, 422, 1, 218>>, <<423, 423, 1, 1>>, <<425, 425, 1, 218>>, <<428, 428, 1, 1>>,
       <<430, 430, 1, 218>>, <<431, 431, 1, 1>>, <<433, 434, 1, 217>>, <<435, 437, 2, 1>>,
       <<439, 439, 1, 219>>, <<440, 440, 1, 1>>, <<444, 444, 1, 1>>, <<452, 452, 1, 2>>,
       <<453, 453, 1, 1>>, <<455, 455, 1, 2>>, <<456, 456, 1, 1>>, <<458, 458, 1, 2>>,
       <<459, 475, 2, 1>>, <<478, 494, 2, 1>>, <<497, 497, 1, 2>>, <<498, 500, 2, 1>>,
       <<502, 502, 1, -97>>, <<503, 503, 1, -56>>, <<504, 542, 2, 1>>, <<544, 544, 1, -130>>,
       <<546, 562, 2, 1>>, <<570, 570, 1, 10795>>, <<571, 571, 1, 1>>, <<573, 573, 1, -163>>,
       <<574, 574, 1, 10792>>, <<577, 577, 1, 1>>, <<579, 579, 1, -195>>, <<580, 580, 1, 69>>,
       <<581, 581, 1, 71>>, <<582, 590, 2, 1>>, <<880, 882, 2, 1>>, <<886, 886, 1, 1>>,
       <<895, 895, 1, 116>>, <<902, 902, 1, 38>>, <<904, 906, 1, 37>>, <<908, 908, 1, 64>>,
       <<910, 911, 1, 63>>, <<913, 929, 1, 32>>, <<931, 939, 1, 32>>, <<975, 975, 1, 8>>,
       <<984, 1006, 2, 1>>, <<1012, 1012, 1, -60>>, <<1015, 1015, 1, 1>>, <<1017, 1017, 1, -7>>,
       <<1018, 1018, 1, 1>>, <<1021, 1023, 1, -130>>, <<1024, 1039, 1, 80>>, <<1040, 1071, 1, 32>>,
       <<1120, 1152, 2, 1>>, <<1162, 1214, 2, 1>>, <<1216, 1216, 1, 15>>, <<1217, 1229, 2, 1>>,
       <<1232, 1326, 2, 1>>, <<1329, 1366, 1, 48>>, <<4256, 4293, 1, 7264>>, <<4295, 4295, 1, 7264>>,
       <<4301, 4301, 1, 7264>>, <<5024, 5103, 1, 38864>>, <<5104, 5109, 1, 8>>, <<7312, 7354, 1, -3008>>,
       <<7357, 7359, 1, -3008>>, <<7680, 7828, 2, 1>>, <<7838, 7838, 1, -7615>>, <<7840, 7934, 2, 1>>,
       <<7944, 7951, 1, -8>>, <<7960, 7965, 1, -8>>, <<7976, 7983, 1, -8>>, <<7992, 7999, 1, -8>>,
       <<8008, 8013, 1, -8>>, <<8025, 8031, 2, -8>>, <<8040, 8047, 1, -8>>, <<8072, 8079, 1, -8>>,
       <<8088, 8095, 1, -8>>, <<8104, 8111, 1, -8>>, <<8120, 8121, 1, -8>>, <<8122, 8123, 1, -74>>,
       <<8124, 8124, 1, -9>>, <<8136, 8139, 1, -86>>, <<8140, 8140, 1, -9>>, <<8152, 8153, 1, -8>>,
       <<8154, 8155, 1, -100>>, <<8168, 8169, 1, -8>>, <<8170, 8171, 1, -112>>, <<8172, 8172, 1, -7>>,
       <<8184, 8185, 1, -128>>, <<8186, 8187, 1, -126>>, <<8188, 8188, 1, -9>>, <<8486, 8486, 1, -7517>>,
       <<8490, 8490, 1, -8383>>, <<8491, 8491, 1, -8262>>, <<8498, 8498, 1, 28>>, <<8544, 8559, 1, 16>>,
       <<8579, 8579, 1, 1>>, <<9398, 9423, 1, 26>>, <<11264, 11311, 1, 48>>, <<11360, 11360, 1, 1>>,
       <<11362, 11362, 1, -10743>>, <<11363, 11363, 1, -3814>>, <<11364, 11364, 1, -10727>>, <<11367, 11371, 2, 1>>,
       <<11373, 11373, 1, -10780>>, <<11374, 11374, 1, -10749>>, <<11375, 11375, 1, -10783>>, <<11376, 11376, 1, -10782>>,
       <<11378, 11378, 1, 1>>, <<11381, 11381, 1, 1>>, <<11390, 11391, 1, -10815>>, <<11392, 11490, 2, 1>>,
       <<11499, 11501, 2, 1>>, <<11506, 11506, 1, 1>>, <<42560, 42604, 2, 1>>, <<42624, 42650, 2, 1>>,
       <<42786, 42798, 2, 1>>, <<42802, 42862, 2, 1>>, <<42873, 42875, 2, 1>>, <<42877, 42877, 1, -35332>>,
       <<42878, 42886, 2, 1>>, <<42891, 42891, 1, 1>>, <<42893, 42893, 1, -42280>>, <<42896, 42898, 2, 1>>,
       <<42902, 42920, 2, 1>>, <<42922, 42922, 1, -42308>>, <<42923, 42923, 1, -42319>>, <<42924, 42924, 1, -42315>>,
       <<42925, 42925, 1, -42305>>, <<42926, 42926, 1, -42308>>, <<42928, 42928, 1, -42258>>, <<42929, 42929, 1, -42282>>,
       <<42930, 42930, 1, -42261>>, <<42931, 42931, 1, 928>>, <<42932, 42946, 2, 1>>, <<42948, 42948, 1, -48>>,
       <<42949, 42949, 1, -42307>>, <<42950, 42950, 1, -35384>>, <<42951, 42953, 2, 1>>, <<42960, 42960, 1, 1>>,
       <<42966, 42968, 2, 1>>, <<42997, 42997, 1, 1>>, <<65313, 65338, 1, 32>>, <<66560, 66599, 1, 40>>,
       <<66736, 66771, 1, 40>>, <<66928, 66964, 2, 39>>, <<66929, 66937, 2, 39>>, <<66941, 66953, 2, 39>>,
       <<66957, 66961, 2, 39>>, <<66965, 66965, 1, 39>>, <<68736, 68786, 1, 64>>, <<71840, 71871, 1, 32>>,
       <<93760, 93791, 1, 32>>, <<125184, 125217, 1, 34>> >>

\* The simple lower-case form of one code point; every code point outside
\* LowerRanges is its own.  The letters below U+0080 are the first range.
LowerChar(ch) ==
    IF ch < 128
    THEN IF LowerRanges[1][1] <= ch /\ ch <= LowerRanges[1][2]
         THEN ch + LowerRanges[1][4] ELSE ch
    ELSE LET hits == {n \in 1..Len(LowerRanges) :
                        /\ LowerRanges[n][1] <= ch
                        /\ ch <= LowerRanges[n][2]
                        /\ (ch - LowerRanges[n][1]) % LowerRanges[n][3] = 0}
         IN  IF hits = {} THEN ch
             ELSE ch + LowerRanges[CHOOSE n \in hits : TRUE][4]

\* The code points with the Cased property, as <<lo, hi>>.
CasedRanges ==
    << <<65, 90>>, <<97, 122>>, <<170, 170>>, <<181, 181>>, <<186, 186>>, <<192, 214>>,
       <<216, 246>>, <<248, 442>>, <<444, 447>>, <<452, 659>>, <<661, 696>>, <<704, 705>>,
       <<736, 740>>, <<837, 837>>, <<880, 883>>, <<886, 887>>, <<890, 893>>, <<895, 895>>,
       <<902, 902>>, <<904, 906>>, <<908, 908>>, <<910, 929>>, <<931, 1013>>, <<1015, 1153>>,
       <<1162, 1327>>, <<1329, 1366>>, <<1376, 1416>>, <<4256, 4293>>, <<4295, 4295>>, <<4301, 4301>>,
       <<4304, 4346>>, <<4349, 4351>>, <<5024, 5109>>, <<5112, 5117>>, <<7296, 7304>>, <<7312, 7354>>,
       <<7357, 7359>>, <<7424, 7615>>, <<7680, 7957>>, <<7960, 7965>>, <<7968, 8005>>, <<8008, 8013>>,
       <<8016, 8023>>, <<8025, 8025>>, <<8027, 8027>>, <<8029, 8029>>, <<8031, 8061>>, <<8064, 8116>>,
       <<8118, 8124>>, <<8126, 8126>>, <<8130, 8132>>, <<8134, 8140>>, <<8144, 8147>>, <<8150, 8155>>,
       <<8160, 8172>>, <<8178, 8180>>, <<8182, 8188>>, <<8305, 8305>>, <<8319, 8319>>, <<8336, 8348>>,
       <<8450, 8450>>, <<8455, 8455>>, <<8458, 8467>>, <<8469, 8469>>, <<8473, 8477>>, <<8484, 8484>>,
       <<8486, 8486>>, <<8488, 8488>>, <<8490, 8493>>, <<8495, 8500>>, <<8505, 8505>>, <<8508, 8511>>,
       <<8517, 8521>>, <<8526, 8526>>, <<8544, 8575>>, <<8579, 8580>>, <<9398, 9449>>, <<11264, 11492>>,
       <<11499, 11502>>, <<11506, 11507>>, <<11520, 11557>>, <<11559, 11559>>, <<11565, 11565>>, <<42560, 42605>>,
       <<42624, 42653>>, <<42786, 42887>>, <<42891, 42894>>, <<42896, 42954>>, <<42960, 42961>>, <<42963, 42963>>,
       <<42965, 42969>>, <<42997, 42998>>, <<43000, 43002>>, <<43824, 43866>>, <<43868, 43880>>, <<43888, 43967>>,
       <<64256, 64262>>, <<64275, 64279>>, <<65313, 65338>>, <<65345, 65370>>, <<66560, 66639>>, <<66736, 66771>>,
       <<66776, 66811>>, <<66928, 66938>>, <<66940, 66954>>, <<66956, 66962>>, <<66964, 66965>>, <<66967, 66977>>,
       <<66979, 66993>>, <<66995, 67001>>, <<67003, 67004>>, <<67456, 67456>>, <<67459, 67461>>, <<67463, 67504>>,
       <<67506, 67514>>, <<68736, 68786>>, <<68800, 68850>>, <<71840, 71903>>, <<93760, 93823>>, <<119808, 119892>>,
       <<119894, 119964>>, <<119966, 119967>>, <<119970, 119970>>, <<119973, 119974>>, <<119977, 119980>>, <<119982, 119993>>,
       <<119995, 119995>>, <<119997, 120003>>, <<120005, 120069>>, <<120071, 120074>>, <<120077, 120084>>, <<120086, 120092>>,
       <<120094, 120121>>, <<120123, 120126>>, <<120128, 120132>>, <<120134, 120134>>, <<120138, 120144>>, <<120146, 120485>>,
       <<120488, 120512>>, <<120514, 120538>>, <<120540, 120570>>, <<120572, 120596>>, <<120598, 120628>>, <<120630, 120654>>,
       <<120656, 120686>>, <<120688, 120712>>, <<120714, 120744>>, <<120746, 120770>>, <<120772, 120779>>, <<122624, 122633>>,
       <<122635, 122654>>, <<125184, 125251>>, <<127280, 127305>>, <<127312, 127337>>, <<127344, 127369>> >>

\* The code points with the Case_Ignorable property, as <<lo, hi>>.
CaseIgnorableRanges ==
    << <<39, 39>>, <<46, 46>>, <<58, 58>>, <<94, 94>>, <<96, 96>>, <<168, 168>>,
       <<173, 173>>, <<175, 175>>, <<180, 180>>, <<183, 184>>, <<688, 879>>, <<884, 885>>,
       <<890, 890>>, <<900, 901>>, <<903, 903>>, <<1155, 1161>>, <<1369, 1369>>, <<1375, 1375>>,
       <<1425, 1469>>, <<1471, 1471>>, <<1473, 1474>>, <<1476, 1477>>, <<1479, 1479>>, <<1524, 1524>>,
       <<1536, 1541>>, <<1552, 1562>>, <<1564, 1564>>, <<1600, 1600>>, <<1611, 1631>>, <<1648, 1648>>,
       <<1750, 1757>>, <<1759, 1768>>, <<1770, 1773>>, <<1807, 1807>>, <<1809, 1809>>, <<1840, 1866>>,
       <<1958, 1968>>, <<2027, 2037>>, <<2042, 2042>>, <<2045, 2045>>, <<2070, 2093>>, <<2137, 2139>>,
       <<2184, 2184>>, <<2192, 2193>>, <<2200, 2207>>, <<2249, 2306>>, <<2362, 2362>>, <<2364, 2364>>,
       <<2369, 2376>>, <<2381, 2381>>, <<2385, 2391>>, <<2402, 2403>>, <<2417, 2417>>, <<2433, 2433>>,
       <<2492, 2492>>, <<2497, 2500>>, <<2509, 2509>>, <<2530, 2531>>, <<2558, 2558>>, <<2561, 2562>>,
       <<2620, 2620>>, <<2625, 2626>>, <<2631, 2632>>, <<2635, 2637>>, <<2641, 2641>>, <<2672, 2673>>,
       <<2677, 2677>>, <<2689, 2690>>, <<2748, 2748>>, <<2753, 2757>>, <<2759, 2760>>, <<2765, 2765>>,
       <<2786, 2787>>, <<2810, 2815>>, <<2817, 2817>>, <<2876, 2876>>, <<2879, 2879>>, <<2881, 2884>>,
       <<2893, 2893>>, <<2901, 2902>>, <<2914, 2915>>, <<2946, 2946>>, <<3008, 3008>>, <<3021, 3021>>,
       <<3072, 3072>>, <<3076, 3076>>, <<3132, 3132>>, <<3134, 3136>>, <<3142, 3144>>, <<3146, 3149>>,
       <<3157, 3158>>, <<3170, 3171>>, <<3201, 3201>>, <<3260, 3260>>, <<3263, 3263>>, <<3270, 3270>>,
       <<3276, 3277>>, <<3298, 3299>>, <<3328, 3329>>, <<3387, 3388>>, <<3393, 3396>>, <<3405, 3405>>,
       <<3426, 3427>>, <<3457, 3457>>, <<3530, 3530>>, <<3538, 3540>>, <<3542, 3542>>, <<3633, 3633>>,
       <<3636, 3642>>, <<3654, 3662>>, <<3761, 3761>>, <<3764, 3772>>, <<3782, 3782>>, <<3784, 3789>>,
       <<3864, 3865>>, <<3893, 3893>>, <<3895, 3895>>, <<3897, 3897>>, <<3953, 3966>>, <<3968, 3972>>,
       <<3974, 3975>>, <<3981, 3991>>, <<3993, 4028>>, <<4038, 4038>>, <<4141, 4144>>, <<4146, 4151>>,
       <<4153, 4154>>, <<4157, 4158>>, <<4184, 4185>>, <<4190, 4192>>, <<4209, 4212>>, <<4226, 4226>>,
       <<4229, 4230>>, <<4237, 4237>>, <<4253, 4253>>, <<4348, 4348>>, <<4957, 4959>>, <<5906, 5908>>,
       <<5938, 5939>>, <<5970, 5971>>, <<6002, 6003>>, <<6068, 6069>>, <<6071, 6077>>, <<6086, 6086>>,
       <<6089, 6099>>, <<6103, 6103>>, <<6109, 6109>>, <<6155, 6159>>, <<6211, 6211>>, <<6277, 6278>>,
       <<6313, 6313>>, <<6432, 6434>>, <<6439, 6440>>, <<6450, 6450>>, <<6457, 6459>>, <<6679, 6680>>,
       <<6683, 6683>>, <<6742, 6742>>, <<6744, 6750>>, <<6752, 6752>>, <<6754, 6754>>, <<6757, 6764>>,
       <<6771, 6780>>, <<6783, 6783>>, <<6823, 6823>>, <<6832, 6862>>, <<6912, 6915>>, <<6964, 6964>>,
       <<6966, 6970>>, <<6972, 6972>>, <<6978, 6978>>, <<7019, 7027>>, <<7040, 7041>>, <<7074, 7077>>,
       <<7080, 7081>>, <<7083, 7085>>, <<7142, 7142>>, <<7144, 7145>>, <<7149, 7149>>, <<7151, 7153>>,
       <<7212, 7219>>, <<7222, 7223>>, <<7288, 7293>>, <<7376, 7378>>, <<7380, 7392>>, <<7394, 7400>>,
       <<7405, 7405>>, <<7412, 7412>>, <<7416, 7417>>, <<7468, 7530>>, <<7544, 7544>>, <<7579, 7679>>,
       <<8125, 8125>>, <<8127, 8129>>, <<8141, 8143>>, <<8157, 8159>>, <<8173, 8175>>, <<8189, 8190>>,
       <<8203, 8207>>, <<8216, 8217>>, <<8228, 8228>>, <<8231, 8231>>, <<8234, 8238>>, <<8288, 8292>>,
       <<8294, 8303>>, <<8305, 8305>>, <<8319, 8319>>, <<8336, 8348>>, <<8400, 8432>>, <<11388, 11389>>,
       <<11503, 11505>>, <<11631, 11631>>, <<11647, 11647>>, <<11744, 11775>>, <<11823, 11823>>, <<12293, 12293>>,
       <<12330, 12333>>, <<12337, 12341>>, <<12347, 12347>>, <<12441, 12446>>, <<12540, 12542>>, <<40981, 40981>>,
       <<42232, 42237>>, <<42508, 42508>>, <<42607, 42610>>, <<42612, 42621>>, <<42623, 42623>>, <<42652, 42655>>,
       <<42736, 42737>>, <<42752, 42785>>, <<42864, 42864>>, <<42888, 42890>>, <<42994, 42996>>, <<43000, 43001>>,
       <<43010, 43010>>, <<43014, 43014>>, <<43019, 43019>>, <<43045, 43046>>, <<43052, 43052>>, <<43204, 43205>>,
       <<43232, 43249>>, <<43263, 43263>>, <<43302, 43309>>, <<43335, 43345>>, <<43392, 43394>>, <<43443, 43443>>,
       <<43446, 43449>>, <<43452, 43453>>, <<43471, 43471>>, <<43493, 43494>>, <<43561, 43566>>, <<43569, 43570>>,
       <<43573, 43574>>, <<43587, 43587>>, <<43596, 43596>>, <<43632, 43632>>, <<43644, 43644>>, <<43696, 43696>>,
       <<43698, 43700>>, <<43703, 43704>>, <<43710, 43711>>, <<43713, 43713>>, <<43741, 43741>>, <<43756, 43757>>,
       <<43763, 43764>>, <<43766, 43766>>, <<43867, 43871>>, <<43881, 43883>>, <<44005, 44005>>, <<44008, 44008>>,
       <<44013, 44013>>, <<64286, 64286>>, <<64434, 64450>>, <<65024, 65039>>, <<65043, 65043>>, <<65056, 65071>>,
       <<65106, 65106>>, <<65109, 65109>>, <<65279, 65279>>, <<65287, 65287>>, <<65294, 65294>>, <<65306, 65306>>,
       <<65342, 65342>>, <<65344, 65344>>, <<65392, 65392>>, <<65438, 65439>>, <<65507, 65507>>, <<65529, 65531>>,
       <<66045, 66045>>, <<66272, 66272>>, <<66422, 66426>>, <<67456, 67461>>, <<67463, 67504>>, <<67506, 67514>>,
       <<68097, 68099>>, <<68101, 68102>>, <<68108, 68111>>, <<68152, 68154>>, <<68159, 68159>>, <<68325, 68326>>,
       <<68900, 68903>>, <<69291, 69292>>, <<69446, 69456>>, <<69506, 69509>>, <<69633, 69633>>, <<69688, 69702>>,
       <<69744, 69744>>, <<69747, 69748>>, <<69759, 69761>>, <<69811, 69814>>, <<69817, 69818>>, <<69821, 69821>>,
       <<69826, 69826>>, <<69837, 69837>>, <<69888, 69890>>, <<69927, 69931>>, <<69933, 69940>>, <<70003, 70003>>,
       <<70016, 70017>>, <<70070, 70078>>, <<70089, 70092>>, <<70095, 70095>>, <<70191, 70193>>, <<70196, 70196>>,
       <<70198, 70199>>, <<70206, 70206>>, <<70367, 70367>>, <<70371, 70378>>, <<70400, 70401>>, <<70459, 70460>>,
       <<70464, 70464>>, <<70502, 70508>>, <<70512, 70516>>, <<70712, 70719>>, <<70722, 70724>>, <<70726, 70726>>,
       <<70750, 70750>>, <<70835, 70840>>, <<70842, 70842>>, <<70847, 70848>>, <<70850, 70851>>, <<71090, 71093>>,
       <<71100, 71101>>, <<71103, 71104>>, <<71132, 71133>>, <<71219, 71226>>, <<71229, 71229>>, <<71231, 71232>>,
       <<71339, 71339>>, <<71341, 71341>>, <<71344, 71349>>, <<71351, 71351>>, <<71453, 71455>>, <<71458, 71461>>,
       <<71463, 71467>>, <<71727, 71735>>, <<71737, 71738>>, <<71995, 71996>>, <<71998, 71998>>, <<72003, 72003>>,
       <<72148, 72151>>, <<72154, 72155>>, <<72160, 72160>>, <<72193, 72202>>, <<72243, 72248>>, <<72251, 72254>>,
       <<72263, 72263>>, <<72273, 72278>>, <<72281, 72283>>, <<72330, 72342>>, <<72344, 72345>>, <<72752, 72758>>,
       <<72760, 72765>>, <<72767, 72767>>, <<72850, 72871>>, <<72874, 72880>>, <<72882, 72883>>, <<72885, 72886>>,
       <<73009, 73014>>, <<73018, 73018>>, <<73020, 73021>>, <<73023, 73029>>, <<73031, 73031>>, <<73104, 73105>>,
       <<73109, 73109>>, <<73111, 73111>>, <<73459, 73460>>, <<78896, 78904>>, <<92912, 92916>>, <<92976, 92982>>,
       <<92992, 92995>>, <<94031, 94031>>, <<94095, 94111>>, <<94176, 94177>>, <<94179, 94180>>, <<110576, 110579>>,
       <<110581, 110587>>, <<110589, 110590>>, <<113821, 113822>>, <<113824, 113827>>, <<118528, 118573>>, <<118576, 118598>>,
       <<119143, 119145>>, <<119155, 119170>>, <<119173, 119179>>, <<119210, 119213>>, <<119362, 119364>>, <<121344, 121398>>,
       <<121403, 121452>>, <<121461, 121461>>, <<121476, 121476>>, <<121499, 121503>>, <<121505, 121519>>, <<122880, 122886>>,
       <<122888, 122904>>, <<122907, 122913>>, <<122915, 122916>>, <<122918, 122922>>, <<123184, 123197>>, <<123566, 123566>>,
       <<123628, 123631>>, <<125136, 125142>>, <<125252, 125259>>, <<127995, 127999>>, <<917505, 917505>>, <<917536, 917631>>,
       <<917760, 917999>> >>

RECURSIVE SkipIgnorableBack(_, _)
SkipIgnorableBack(s, j) ==
    IF j >= 1 /\ InRanges(s[j], CaseIgnorableRanges)
    THEN SkipIgnorableBack(s, j - 1) ELSE j

RECURSIVE SkipIgnorableForward(_, _)
SkipIgnorableForward(s, j) ==
    IF j <= Len(s) /\ InRanges(s[j], CaseIgnorableRanges)
    THEN SkipIgnorableForward(s, j + 1) ELSE j

\* A capital sigma (U+03A3) ends a word when, case-ignorable code points
\* apart, a cased one precedes it and none follows it.
FinalSigma(s, i) ==
    LET p == SkipIgnorableBack(s, i - 1)
        n == SkipIgnorableForward(s, i + 1)
    IN  /\ p >= 1
        /\ InRanges(s[p], CasedRanges)
        /\ (n > Len(s) \/ ~InRanges(s[n], CasedRanges))

\* The lower-case form of the code point at position i: the capital sigma
\* becomes the final or the medial small sigma, the dotted capital I
\* (U+0130) becomes i and a combining dot, every other code point its
\* simple lower-case form.
LowerAt(s, i) ==
    IF s[i] = 931 THEN <<IF FinalSigma(s, i) THEN 962 ELSE 963>>
    ELSE IF s[i] = 304 THEN <<105, 775>>
    ELSE <<LowerChar(s[i])>>

RECURSIVE LowerFrom(_, _)
LowerFrom(s, i) ==
    IF i > Len(s) THEN <<>> ELSE LowerAt(s, i) \o LowerFrom(s, i + 1)

\* SpeechResult.lower()
Lower(s) == LowerFrom(s, 1)

\* Python's `k in s` for strings
Contains(s, k) ==
    \E i \in 0..(Len(s) - Len(k)) : \A j \in 1..Len(k) : s[i + j] = k[j]

\* ["book", "appointment", "schedule", "reserve"]
booking_keywords ==
    << <<98, 111, 111, 107>>,
       <<97, 112, 112, 111, 105, 110, 116, 109, 101, 110, 116>>,
       <<115, 99, 104, 101, 100, 117, 108, 101>>,
       <<114, 101, 115, 101, 114, 118, 101>> >>

\* The test written as `if booking_keywords:`, true of any utterance.
HasBookingIntentAnyText(speech) ==
    Len(booking_keywords) > 0

HasBookingIntent(speech) ==
    \E n \in 1..Len(booking_keywords) : Contains(Lower(speech), booking_keywords[n])

\* None, "", "Book", "reSCHEDULE", "a Reserved", "APPOINTMENT",
\* "boo" + U+212A (the Kelvin sign, whose lower-case form is "k"),
\* "help", "boo k"
SpeechInputs ==
    { SpeechNone,
      <<>>,
      <<66, 111, 111, 107>>,
      <<114, 101, 83, 67, 72, 69, 68, 85, 76, 69>>,
      <<97, 32, 82, 101, 115, 101, 114, 118, 101, 100>>,
      <<65, 80, 80, 79, 73, 78, 84, 77, 69, 78, 84>>,
      <<98, 111, 111, 8490>>,
      <<104, 101, 108, 112>>,
      <<98, 111, 111, 32, 107>> }

\* The code points int() reads as the decimal digit zero; the nine code
\* points after each are its digits one to nine.
DecimalZeros ==
    { 48, 1632, 1776, 1984, 2406, 2534, 2662, 2790, 2918, 3046,
      3174, 3302, 3430, 3558, 3664, 3792, 3872, 4160, 4240, 6112,
      6160, 6470, 6608, 6784, 6800, 6992, 7088, 7232, 7248, 42528,
      43216, 43264, 43472, 43504, 43600, 44016, 65296, 66720, 68912, 69734,
      69872, 69942, 70096, 70384, 70736, 70864, 71248, 71360, 71472, 71904,
      72016, 72784, 73040, 73120, 92768, 92864, 93008, 120782, 120792, 120802,
      120812, 120822, 123200, 123632, 125264, 130032 }

IsDecimal(ch) == \E z \in DecimalZeros : z <= ch /\ ch <= z + 9

DigitVal(ch) == ch - (CHOOSE z \in DecimalZeros : z <= ch /\ ch <= z + 9)

\* The code points from U+007F up that int() reads as white space.
UnicodeSpaces ==
    { 133, 160, 5760, 8192, 8193, 8194, 8195, 8196, 8197, 8198,
      8199, 8200, 8201, 8202, 8232, 8233, 8239, 8287, 12288 }

\* int() first rewrites its argument: a code point below U+007F stays, a
\* Unicode space becomes a space, a Unicode decimal digit the digit 0-9 of
\* its value, anything else a "?".
ToAscii(ch) ==
    IF ch < 127 THEN ch
    ELSE IF ch \in UnicodeSpaces THEN 32
    ELSE IF IsDecimal(ch) THEN 48 + DigitVal(ch)
    ELSE 63

Transform(d) == [i \in 1..Len(d) |-> ToAscii(d[i])]

\* "0" to "9"
DigitChars == 48..57

RECURSIVE DecimalValue(_)
DecimalValue(d) ==
    IF Len(d) = 0 THEN 0
    ELSE 10 * DecimalValue(SubSeq(d, 1, Len(d) - 1)) + DigitVal(d[Len(d)])

\* The characters int() strips from both ends of the rewritten argument:
\* tab, line feed, vertical tab, form feed, carriage return, space.
WhitespaceChars == {9, 10, 11, 12, 13, 32}

\* d from its first character that is not white space.
StripLeft(d) ==
    LET kept == {i \in 1..Len(d) : d[i] \notin WhitespaceChars}
    IN  IF kept = {} THEN <<>>
        ELSE SubSeq(d, CHOOSE i \in kept : \A j \in kept : i <= j, Len(d))

\* d up to its last character that is not white space.
StripRight(d) ==
    LET kept == {i \in 1..Len(d) : d[i] \notin WhitespaceChars}
    IN  IF kept = {} THEN <<>>
        ELSE SubSeq(d, 1, CHOOSE i \in kept : \A j \in kept : i >= j)

Strip(d) == StripRight(StripLeft(d))

\* The digits of an integer literal: decimal digits, with single
\* underscores (95) allowed between two digits.
DigitPart(b) ==
    /\ Len(b) > 0
    /\ \A i \in 1..Len(b) : b[i] \in DigitChars \cup {95}
    /\ b[1] # 95
    /\ b[Len(b)] # 95
    /\ \A i \in 1..(Len(b) - 1) : ~(b[i] = 95 /\ b[i + 1] = 95)

WithoutUnderscores(b) ==
    LET IsDigit(ch) == ch \in DigitChars
    IN  SelectSeq(b, IsDigit)

\* The interpreter's limit on the digits of an integer string
\* (sys.get_int_max_str_digits()).
IntMaxStrDigits == 4300

\* The digits b without leading zeros ("0" for zero).
StripZeros(b) ==
    LET kept == {i \in 1..Len(b) : b[i] # 48}
    IN  IF kept = {} THEN <<48>>
        ELSE SubSeq(b, CHOOSE i \in kept : \A j \in kept : i <= j, Len(b))

\* int(Digits): Unicode spaces and digits are rewritten, surrounding
\* white space is stripped, one sign ("+" 43, "-" 45) may lead,
\* underscores may separate digits; anything else, or more digits than
\* the limit, is a ValueError.  The integer has no bound, so it is held
\* as its sign and the digits of its magnitude without leading zeros
\* (str(abs(n))); neg is n < 0.
ParseInt(d) ==
    LET s == Strip(Transform(d))
        signed == Len(s) > 0 /\ s[1] \in {43, 45}
        b == IF signed THEN Tail(s) ELSE s
        digs == WithoutUnderscores(b)
        mag == StripZeros(digs)
    IN  IF DigitPart(b) /\ Len(digs) <= IntMaxStrDigits
        THEN [ok |-> TRUE,
              neg |-> signed /\ s[1] = 45 /\ mag # <<48>>,
              mag |-> mag]
        ELSE [ok |-> FALSE, neg |-> FALSE, mag |-> <<>>]

\* The integer n as a number of this module, which holds magnitudes of up
\* to nine digits.
IntValue(n) ==
    IF n.neg THEN 0 - DecimalValue(n.mag) ELSE DecimalValue(n.mag)

\* n < k and n > k for an integer n of any size and a number k of up to
\* nine digits.
IntLess(n, k) ==
    IF Len(n.mag) <= 9 THEN IntValue(n) < k ELSE n.neg

IntGreater(n, k) ==
    IF Len(n.mag) <= 9 THEN IntValue(n) > k ELSE ~n.neg

\* No digits posted yet for the call.
NotPressed == <<-1>>

\* "0", "1", "2", U+1680 "+" U+06F2 (an ogham space, a plus sign and the
\* extended Arabic-Indic digit two: int() reads 2), "5", "*"
DigitInputs ==
    { <<48>>, <<49>>, <<50>>, <<5760, 43, 1778>>, <<53>>, <<42>> }

\* ------------------------------------------------------------ the store
\* The "appointments" table: id -> [slot_time, booked, call_sid].
Row(S, i) ==
    [id |-> i, slot_time |-> S[i].slot_time, booked |-> S[i].booked,
     call_sid |-> S[i].call_sid]

\* .order("slot_time"): the ids of `ids`, by slot_time ascending.  The
\* query names no second sort key, so rows of equal slot_time come in the
\* order the store happens to hold them: `order` ranks the ids.
RECURSIVE OrderBySlotTime(_, _, _)
OrderBySlotTime(S, ids, order) ==
    IF ids = {} THEN <<>>
    ELSE LET first == CHOOSE i \in ids :
                          \A j \in ids \ {i} :
                              \/ S[i].slot_time < S[j].slot_time
                              \/ /\ S[i].slot_time = S[j].slot_time
                                 /\ order[i] < order[j]
         IN  <<first>> \o OrderBySlotTime(S, ids \ {first}, order)

\* .limit(n)
Limit(q, n) == SubSeq(q, 1, IF Len(q) < n THEN Len(q) ELSE n)

\* .select("*").eq("booked", False).order("slot_time")
SelectAvailable(S, order) ==
    LET ids == OrderBySlotTime(S, {i \in DOMAIN S : S[i].booked = FALSE},
                               order)
    IN  [n \in 1..Len(ids) |-> Row(S, ids[n])]

get_available_slots_touching(S, limit, up, order) ==
    IF up
    THEN [data  |-> Limit(SelectAvailable(S, order), limit),
          table |-> [i \in DOMAIN S |->
                        IF \E n \in 1..Len(Limit(SelectAvailable(S, order), limit)) :
                               Limit(SelectAvailable(S, order), limit)[n].id = i
                        THEN [S[i] EXCEPT !.booked = TRUE]
                        ELSE S[i]]]
    ELSE [data |-> <<>>, table |-> S]

get_available_slots_unordered(S, limit, up, order) ==
    IF up
    THEN LET ids == OrderBySlotTime([i \in DOMAIN S |-> [slot_time |-> i]],
                                    {i \in DOMAIN S : S[i].booked = FALSE},
                                    order)
         IN  [data  |-> Limit([n \in 1..Len(ids) |-> Row(S, ids[n])], limit),
              table |-> S]
    ELSE [data |-> <<>>, table |-> S]

\* get_available_slots: the rows returned and the table after the query;
\* `up` is whether the store answers (an exception is swallowed into []).
get_available_slots(S, limit, up, order) ==
    IF up
    THEN [data |-> Limit(SelectAvailable(S, order), limit), table |-> S]
    ELSE [data |-> <<>>, table |-> S]

\* A version whose except branch reports the booking as made.
book_appointment_slot_optimistic(S, slot_id, call_sid, up) ==
    LET matched == {i \in DOMAIN S : i = slot_id /\ S[i].booked = FALSE}
    IN  IF up
        THEN [ret   |-> matched # {},
              table |-> [i \in DOMAIN S |->
                            IF i \in matched
                            THEN [S[i] EXCEPT !.booked = TRUE, !.call_sid = call_sid]
                            ELSE S[i]]]
        ELSE [ret |-> TRUE, table |-> S]

book_appointment_slot_unguarded(S, slot_id, call_sid, up) ==
    LET matched == {i \in DOMAIN S : i = slot_id}
    IN  IF up
        THEN [ret   |-> matched # {},
              table |-> [i \in DOMAIN S |->
                            IF i \in matched
                            THEN [S[i] EXCEPT !.booked = TRUE, !.call_sid = call_sid]
                            ELSE S[i]]]
        ELSE [ret |-> FALSE, table |-> S]

book_appointment_slot_no_holder(S, slot_id, call_sid, up) ==
    LET matched == {i \in DOMAIN S : i = slot_id /\ S[i].booked = FALSE}
    IN  IF up
        THEN [ret   |-> matched # {},
              table |-> [i \in DOMAIN S |->
                            IF i \in matched
                            THEN [S[i] EXCEPT !.booked = TRUE]
                            ELSE S[i]]]
        ELSE [ret |-> FALSE, table |-> S]

book_appointment_slot_all_rows(S, slot_id, call_sid, up) ==
    LET matched == {i \in DOMAIN S : S[i].booked = FALSE}
    IN  IF up
        THEN [ret   |-> slot_id \in matched,
              table |-> [i \in DOMAIN S |->
                            IF i \in matched /\ slot_id \in matched
                            THEN [S[i] EXCEPT !.booked = TRUE, !.call_sid = call_sid]
                            ELSE S[i]]]
        ELSE [ret |-> FALSE, table |-> S]

\* book_appointment_slot: UPDATE ... WHERE id = slot_id AND booked = FALSE,
\* one conditional write; ret is len(response.data) > 0.
book_appointment_slot(S, slot_id, call_sid, up) ==
    LET matched == {i \in DOMAIN S : i = slot_id /\ S[i].booked = FALSE}
    IN  IF up
        THEN [ret   |-> matched # {},
              table |-> [i \in DOMAIN S |->
                            IF i \in matched
                            THEN [S[i] EXCEPT !.booked = TRUE, !.call_sid = call_sid]
                            ELSE S[i]]]
        ELSE [ret |-> FALSE, table |-> S]

\* available_slots[slot_number - 1]
SelectedSlotOffByOne(available_slots, slot_number) ==
    available_slots[IF slot_number < Len(available_slots)
                    THEN slot_number + 1 ELSE slot_number]

SelectedSlot(available_slots, slot_number) == available_slots[slot_number]

\* the ids of a listing, in its order
Ids(rows) == [n \in 1..Len(rows) |-> rows[n].id]

\* ---------------------------------------------------------------- state
VARIABLES
    slots,          \* the appointments table
    storeUp,        \* whether the store answers queries
    rowOrder,       \* the store's order among rows of equal slot_time
    pc,             \* per call: where the call session is
    menu,           \* per call: ids of the slots read out as digits 1..K
    digits,         \* per call: the Digits posted to /book_slot
    selected,       \* per call: selected_slot['id'] inside /book_slot
    said,           \* per call: the last prompt of a routing handler
    directive,      \* per call: the last TwiML verb that ends a response
    confirmed_time, \* per call: the slot time named in the confirmation
    raced,          \* per call: another reservation landed since the menu
    resv,           \* per actor: its book_appointment_slot call and result
    notes,          \* per actor: the send_whatsapp_notification calls made
    apiPc,          \* per API request: idle, fetch, done
    apiSlot,        \* per API request: request.slot_id
    apiSid,         \* per API request: api_call_sid
    apiResp,        \* per API request: HTTP status returned
    lastList        \* the latest listing since the last reservation attempt

vars == <<slots, storeUp, rowOrder, pc, menu, digits, selected, said, directive,
          confirmed_time, raced, resv, notes, apiPc, apiSlot, apiSid, apiResp,
          lastList>>

callVars == <<pc, menu, digits, selected, said, directive, confirmed_time>>
apiVars  == <<apiPc, apiSlot, apiSid, apiResp>>

VoiceActor(c) == <<"call", c>>
ApiActor(r)   == <<"api", r>>
Actors == {VoiceActor(c) : c \in Calls} \cup {ApiActor(r) : r \in Reqs}

\* No listing answered by the store yet.
NoAnswer == [fn |-> "none", limit |-> 0, data |-> <<>>]

NoListing ==
    [fn |-> "none", limit |-> 0, data |-> <<>>, answered |-> FALSE,
     last |-> NoAnswer]

NoResv == [called |-> FALSE, slot |-> 0, holder |-> NoHolder, ret |-> FALSE]

\* api_call_sid = f"API_{datetime.now().isoformat()}"
ApiCallSid(t) == <<"API", t>>

\* The clock values datetime.now() may return to an API request.
Timestamps == 0..MaxClock

\* A provisioned table: slot times `t`, the slots in `prior` booked earlier.
Table(t, prior) ==
    [i \in SlotIds |->
        [slot_time |-> t[i],
         booked    |-> i \in prior,
         call_sid  |-> IF i \in prior THEN PriorSid ELSE NoHolder]]

\* The tables the first event may find: every slot free, times descending
\* in the id; or only slots 1 and 2 free, times rotated by one.
FullTable   == Table([i \in SlotIds |-> NumSlots + 1 - i], {})
ScarceTable == Table([i \in SlotIds |-> (i % NumSlots) + 1],
                     {i \in SlotIds : i > 2})

InitialTables == {FullTable, ScarceTable}

\* A table where slots share a time: every slot free, slots 1 and 2 at the
\* earliest time and slots 4 and 5 at the latest, so that one tie is
\* inside every menu and the other is cut by .limit(4).
TiedTable ==
    Table([i \in SlotIds |-> IF i <= 2 THEN 1
                             ELSE IF i >= NumSlots - 1 THEN 3 ELSE 2], {})

\* The orders in which the store may return rows of equal slot_time: by
\* id ascending, as inserted, or by id descending.
InsertionOrder == [i \in SlotIds |-> i]
RowOrders == {InsertionOrder, [i \in SlotIds |-> NumSlots + 1 - i]}

InitFrom(tables) ==
    /\ slots \in tables
    /\ storeUp = TRUE
    /\ rowOrder = InsertionOrder
    /\ pc = [c \in Calls |-> "Idle"]
    /\ menu = [c \in Calls |-> <<>>]
    /\ digits = [c \in Calls |-> NotPressed]
    /\ selected = [c \in Calls |-> 0]
    /\ said = [c \in Calls |-> "none"]
    /\ directive = [c \in Calls |-> "none"]
    /\ confirmed_time = [c \in Calls |-> 0]
    /\ raced = [c \in Calls |-> FALSE]
    /\ resv = [a \in Actors |-> NoResv]
    /\ notes = [a \in Actors |-> <<>>]
    /\ apiPc = [r \in Reqs |-> "idle"]
    /\ apiSlot = [r \in Reqs |-> 0]
    /\ apiSid = [r \in Reqs |-> NoHolder]
    /\ apiResp = [r \in Reqs |-> 0]
    /\ lastList = NoListing

Init == InitFrom(InitialTables)

\* A listing by `fn` with `limit` returned `data`; `up` is whether the
\* store answered it (get_available_slots returns [] when it did not),
\* and `last` is the latest listing the store did answer, as `before`
\* remembered it.
Listed(fn, limit, data, up, before) ==
    [fn |-> fn, limit |-> limit, data |-> data, answered |-> up,
     last |-> IF up THEN [fn |-> fn, limit |-> limit, data |-> data]
              ELSE before.last]

\* A reservation was attempted: the listings before it are forgotten.
AfterReserve == NoListing

\* Calls holding a menu see the table change under them.
Raced(me, table) ==
    [c \in Calls |->
        raced[c] \/ (c # me /\ table # slots
                     /\ pc[c] \in {"AwaitingSelection", "Reserving"})]

\* send_whatsapp_notification(slot_details, call_sid) -> ok
Notification(slot_details, call_sid, ok) ==
    [slot |-> slot_details.id, slot_time |-> slot_details.slot_time,
     holder |-> call_sid, ok |-> ok]

\* A version whose Twilio error escapes instead of being logged.
send_whatsapp_notification_raising(slot_details, call_sid, delivered) ==
    [ret |-> delivered, raised |-> ~delivered,
     note |-> Notification(slot_details, call_sid, delivered)]

\* send_whatsapp_notification: `delivered` is whether messages.create
\* succeeded; its exception is caught and logged, and False returned.
send_whatsapp_notification(slot_details, call_sid, delivered) ==
    [ret |-> delivered, raised |-> FALSE,
     note |-> Notification(slot_details, call_sid, delivered)]

\* ------------------------------------------------------ voice webhooks
\* POST /voice: greet and gather speech.
handle_voice_call(c) ==
    /\ pc[c] = "Idle"
    /\ pc' = [pc EXCEPT ![c] = "Greeting"]
    /\ said' = [said EXCEPT ![c] = "Welcome"]
    /\ directive' = [directive EXCEPT ![c] = "gather_speech"]
    /\ UNCHANGED <<slots, storeUp, rowOrder, menu, digits, selected, confirmed_time,
                   raced, resv, notes, apiVars, lastList>>

\* No speech within the gather: the response's own redirect to /fallback.
GreetingNoSpeech(c) ==
    /\ pc[c] = "Greeting"
    /\ pc' = [pc EXCEPT ![c] = "Redirect"]
    /\ directive' = [directive EXCEPT ![c] = "redirect"]
    /\ UNCHANGED <<slots, storeUp, rowOrder, menu, digits, selected, said,
                   confirmed_time, raced, resv, notes, apiVars, lastList>>

\* /process_query without its `if not available_slots` branch.
ProcessQueryReplyNoEmptyCheck(SpeechResult, S, up, order) ==
    IF SpeechResult = SpeechNone \/ SpeechResult = <<>>
    THEN [said |-> "DidntCatch", next |-> "Redirect", listed |-> FALSE,
          rows |-> <<>>]
    ELSE IF HasBookingIntent(SpeechResult)
    THEN [said |-> "Menu", next |-> "AwaitingSelection", listed |-> TRUE,
          rows |-> get_available_slots(S, MenuLimit, up, order).data]
    ELSE [said |-> "Assist", next |-> "Redirect", listed |-> FALSE,
          rows |-> <<>>]

\* What /process_query answers: the prompt, the next step and the menu.
ProcessQueryReply(SpeechResult, S, up, order) ==
    IF SpeechResult = SpeechNone \/ SpeechResult = <<>>
    THEN [said |-> "DidntCatch", next |-> "Redirect", listed |-> FALSE,
          rows |-> <<>>]
    ELSE IF HasBookingIntent(SpeechResult)
    THEN LET available_slots == get_available_slots(S, MenuLimit, up, order).data
         IN  IF Len(available_slots) = 0
             THEN [said |-> "NoSlots", next |-> "Redirect", listed |-> TRUE,
                   rows |-> available_slots]
             ELSE [said |-> "Menu", next |-> "AwaitingSelection",
                   listed |-> TRUE, rows |-> available_slots]
    ELSE [said |-> "Assist", next |-> "Redirect", listed |-> FALSE,
          rows |-> <<>>]

\* POST /process_query
process_speech_query(c, SpeechResult) ==
    /\ pc[c] = "Greeting"
    /\ LET r == ProcessQueryReply(SpeechResult, slots, storeUp, rowOrder)
       IN  /\ pc' = [pc EXCEPT ![c] = r.next]
           /\ said' = [said EXCEPT ![c] = r.said]
           /\ directive' = [directive EXCEPT ![c] =
                              IF r.next = "Redirect" THEN "redirect"
                              ELSE "gather_digit"]
           /\ menu' = [menu EXCEPT ![c] = Ids(r.rows)]
           /\ raced' = [raced EXCEPT ![c] = FALSE]
           /\ lastList' = IF r.listed
                          THEN Listed("get_available_slots", MenuLimit, r.rows,
                                      storeUp, lastList)
                          ELSE lastList
           /\ slots' = IF r.listed
                       THEN get_available_slots(slots, MenuLimit, storeUp,
                                                rowOrder).table
                       ELSE slots
    /\ UNCHANGED <<storeUp, rowOrder, digits, selected, confirmed_time, resv, notes,
                   apiVars>>

\* No digit within the gather: "I didn't receive your selection", redirect.
SelectionTimeout(c) ==
    /\ pc[c] = "AwaitingSelection"
    /\ pc' = [pc EXCEPT ![c] = "Redirect"]
    /\ said' = [said EXCEPT ![c] = "NoSelection"]
    /\ directive' = [directive EXCEPT ![c] = "redirect"]
    /\ UNCHANGED <<slots, storeUp, rowOrder, menu, digits, selected, confirmed_time,
                   raced, resv, notes, apiVars, lastList>>

\* /book_slot without the `Digits == "0"` test and the lower bound of the
\* range check: digit 0 indexes available_slots[-1], the last row.
BookSlotChoiceNoLowerCheck(Digits, S, up, order) ==
    LET slot_number == ParseInt(Digits)
    IN  IF ~slot_number.ok \/ IntLess(slot_number, 0)
           \/ IntGreater(slot_number, MaxDigit)
        THEN [said |-> "Invalid", next |-> "Redirect", listed |-> FALSE,
              rows |-> <<>>, slot |-> 0]
        ELSE LET available_slots == get_available_slots(S, MenuLimit, up, order).data
             IN  IF IntGreater(slot_number, Len(available_slots))
                    \/ Len(available_slots) = 0
                 THEN [said |-> "Invalid", next |-> "Redirect",
                       listed |-> TRUE, rows |-> available_slots,
                       slot |-> 0]
                 ELSE [said |-> "Selected", next |-> "Reserving",
                       listed |-> TRUE, rows |-> available_slots,
                       slot |-> IF IntValue(slot_number) = 0
                                THEN available_slots[Len(available_slots)].id
                                ELSE SelectedSlot(available_slots,
                                                  IntValue(slot_number)).id]

\* /book_slot up to selected_slot = available_slots[slot_number - 1]:
\* the prompt, the next step and the slot id chosen.
BookSlotChoice(Digits, S, up, order) ==
    IF Digits = <<48>>
    THEN [said |-> "Connecting", next |-> "Redirect", listed |-> FALSE,
          rows |-> <<>>, slot |-> 0]
    ELSE LET slot_number == ParseInt(Digits)
         IN  IF ~slot_number.ok \/ IntLess(slot_number, 1)
                \/ IntGreater(slot_number, MaxDigit)
             THEN [said |-> "Invalid", next |-> "Redirect", listed |-> FALSE,
                   rows |-> <<>>, slot |-> 0]
             ELSE LET available_slots == get_available_slots(S, MenuLimit, up, order).data
                  IN  IF IntGreater(slot_number, Len(available_slots))
                      THEN [said |-> "Invalid", next |-> "Redirect",
                            listed |-> TRUE, rows |-> available_slots,
                            slot |-> 0]
                      ELSE [said |-> "Selected", next |-> "Reserving",
                            listed |-> TRUE, rows |-> available_slots,
                            slot |-> SelectedSlot(available_slots,
                                                  IntValue(slot_number)).id]

\* POST /book_slot, first store query: parse the digit and list again.
\* The handler keeps no per-call state; the guard is the provider's order
\* of requests: it posts the digits of the gather that /process_query
\* returned, once, and nothing else makes it post to /book_slot.
book_appointment_slot_endpoint(c, Digits) ==
    /\ pc[c] = "AwaitingSelection"
    /\ LET r == BookSlotChoice(Digits, slots, storeUp, rowOrder)
       IN  /\ pc' = [pc EXCEPT ![c] = r.next]
           /\ digits' = [digits EXCEPT ![c] = Digits]
           /\ selected' = [selected EXCEPT ![c] = r.slot]
           /\ said' = [said EXCEPT ![c] =
                         IF r.next = "Redirect" THEN r.said ELSE said[c]]
           /\ directive' = [directive EXCEPT ![c] =
                              IF r.next = "Redirect" THEN "redirect"
                              ELSE directive[c]]
           /\ lastList' = IF r.listed
                          THEN Listed("get_available_slots", MenuLimit, r.rows,
                                      storeUp, lastList)
                          ELSE lastList
           /\ slots' = IF r.listed
                       THEN get_available_slots(slots, MenuLimit, storeUp,
                                                rowOrder).table
                       ELSE slots
    /\ UNCHANGED <<storeUp, rowOrder, menu, confirmed_time, raced, resv, notes,
                   apiVars>>

\* The failure branch without its response.redirect("/fallback"): the TwiML
\* ends after the say, and so does the call.
BookSlotReplyNoRedirect(booked) ==
    IF booked
    THEN [said |-> "Booked", next |-> "Confirmed", directive |-> "hangup",
          notify |-> TRUE]
    ELSE [said |-> "NoLongerAvailable", next |-> "Ended",
          directive |-> "none", notify |-> FALSE]

\* The failure branch gathering a digit again instead of redirecting.
BookSlotReplyBackToMenu(booked) ==
    IF booked
    THEN [said |-> "Booked", next |-> "Confirmed", directive |-> "hangup",
          notify |-> TRUE]
    ELSE [said |-> "NoLongerAvailable", next |-> "AwaitingSelection",
          directive |-> "gather_digit", notify |-> FALSE]

\* send_whatsapp_notification called before the `if`, on either result.
BookSlotReplyNotifyAlways(booked) ==
    IF booked
    THEN [said |-> "Booked", next |-> "Confirmed", directive |-> "hangup",
          notify |-> TRUE]
    ELSE [said |-> "NoLongerAvailable", next |-> "Redirect",
          directive |-> "redirect", notify |-> TRUE]

\* What /book_slot answers once book_appointment_slot returned `booked`.
BookSlotReply(booked) ==
    IF booked
    THEN [said |-> "Booked", next |-> "Confirmed", directive |-> "hangup",
          notify |-> TRUE]
    ELSE [said |-> "NoLongerAvailable", next |-> "Redirect",
          directive |-> "redirect", notify |-> FALSE]

\* POST /book_slot, second store query: book, confirm, notify, hang up.
book_appointment_slot_endpoint_book(c, notified) ==
    /\ pc[c] = "Reserving"
    /\ LET b == book_appointment_slot(slots, selected[c], CallSid(c), storeUp)
           r == BookSlotReply(b.ret)
           selected_slot == [id |-> selected[c],
                             slot_time |-> slots[selected[c]].slot_time]
           n == send_whatsapp_notification(selected_slot, CallSid(c), notified)
           \* an exception other than ValueError or IndexError leaves the
           \* handler: the call gets no TwiML
           crashed == r.notify /\ n.raised
       IN  /\ slots' = b.table
           /\ resv' = [resv EXCEPT ![VoiceActor(c)] =
                         [called |-> TRUE, slot |-> selected[c],
                          holder |-> CallSid(c), ret |-> b.ret]]
           /\ raced' = Raced(c, b.table)
           /\ pc' = [pc EXCEPT ![c] = IF crashed THEN "Error" ELSE r.next]
           /\ said' = [said EXCEPT ![c] = IF crashed THEN "none" ELSE r.said]
           /\ directive' = [directive EXCEPT ![c] =
                              IF crashed THEN "none" ELSE r.directive]
           /\ confirmed_time' = [confirmed_time EXCEPT ![c] =
                                   IF b.ret /\ ~crashed
                                   THEN selected_slot.slot_time ELSE 0]
           /\ notes' = [notes EXCEPT ![VoiceActor(c)] =
                          IF r.notify THEN Append(@, n.note) ELSE @]
           /\ lastList' = AfterReserve
    /\ UNCHANGED <<storeUp, rowOrder, menu, digits, selected, apiVars>>

\* POST /fallback: dial the reception line.
fallback_to_human(c) ==
    /\ pc[c] = "Redirect"
    /\ pc' = [pc EXCEPT ![c] = "Fallback"]
    /\ directive' = [directive EXCEPT ![c] = "dial"]
    /\ UNCHANGED <<slots, storeUp, rowOrder, menu, digits, selected, said,
                   confirmed_time, raced, resv, notes, apiVars, lastList>>

\* ------------------------------------------------------- REST endpoints
\* GET /api/slots: every available slot in time order; 500 on a store error.
ApiSlotsReply(S, up, order) ==
    IF up
    THEN [status |-> 200, data |-> SelectAvailable(S, order), table |-> S]
    ELSE [status |-> 500, data |-> <<>>, table |-> S]

get_appointment_slots ==
    LET r == ApiSlotsReply(slots, storeUp, rowOrder)
    IN  /\ slots' = r.table
        /\ lastList' = IF r.status = 200
                       THEN Listed("get_appointment_slots", NumSlots, r.data,
                                   TRUE, lastList)
                       ELSE lastList
        /\ UNCHANGED <<storeUp, rowOrder, callVars, raced, resv, notes, apiVars>>

\* The HTTP status of /api/book when book_appointment_slot returned FALSE:
\* the HTTPException(400) is raised inside the try block, caught by
\* `except Exception` and replaced by HTTPException(500).
ApiBookFailureStatus == 500

\* POST /api/book, first store query: book under a synthetic call sid.
book_slot_api(r, slot_id, t) ==
    /\ apiPc[r] = "idle"
    /\ LET api_call_sid == ApiCallSid(t)
           b == book_appointment_slot(slots, slot_id, api_call_sid, storeUp)
       IN  /\ slots' = b.table
           /\ resv' = [resv EXCEPT ![ApiActor(r)] =
                         [called |-> TRUE, slot |-> slot_id,
                          holder |-> api_call_sid, ret |-> b.ret]]
           /\ raced' = Raced(0, b.table)
           /\ apiSlot' = [apiSlot EXCEPT ![r] = slot_id]
           /\ apiSid' = [apiSid EXCEPT ![r] = api_call_sid]
           /\ apiPc' = [apiPc EXCEPT ![r] = IF b.ret THEN "fetch" ELSE "done"]
           /\ apiResp' = [apiResp EXCEPT ![r] =
                            IF b.ret THEN 0 ELSE ApiBookFailureStatus]
           /\ lastList' = AfterReserve
    /\ UNCHANGED <<storeUp, rowOrder, callVars, notes>>

\* /api/book after a successful booking: the slot's rows, or an exception.
ApiFetchReply(S, slot_id, up) ==
    IF up
    THEN [status |-> 200,
          data |-> IF slot_id \in DOMAIN S THEN <<Row(S, slot_id)>> ELSE <<>>]
    ELSE [status |-> 500, data |-> <<>>]

\* POST /api/book, second store query: fetch the slot, notify, answer.
book_slot_api_notify(r, notified) ==
    /\ apiPc[r] = "fetch"
    /\ LET f == ApiFetchReply(slots, apiSlot[r], storeUp)
           n == send_whatsapp_notification(
                    IF Len(f.data) > 0 THEN f.data[1] ELSE Row(slots, 1),
                    apiSid[r], notified)
           \* any exception is caught by `except Exception`: 500
           crashed == Len(f.data) > 0 /\ n.raised
       IN  /\ notes' = [notes EXCEPT ![ApiActor(r)] =
                          IF Len(f.data) > 0 THEN Append(@, n.note) ELSE @]
           /\ apiResp' = [apiResp EXCEPT ![r] =
                            IF crashed THEN ApiBookFailureStatus ELSE f.status]
           /\ apiPc' = [apiPc EXCEPT ![r] = "done"]
    /\ UNCHANGED <<slots, storeUp, rowOrder, callVars, raced, resv, apiSlot, apiSid,
                   lastList>>

\* ---------------------------------------------------------- environment
StoreGoesDown ==
    /\ storeUp
    /\ storeUp' = FALSE
    /\ UNCHANGED <<slots, rowOrder, callVars, raced, resv, notes, apiVars, lastList>>

StoreComesBack ==
    /\ ~storeUp
    /\ storeUp' = TRUE
    /\ UNCHANGED <<slots, rowOrder, callVars, raced, resv, notes, apiVars, lastList>>

\* The store returns rows of equal slot_time in another order from now on.
StoreReorders ==
    /\ rowOrder' \in RowOrders \ {rowOrder}
    /\ UNCHANGED <<slots, storeUp, callVars, raced, resv, notes, apiVars,
                   lastList>>

\* ------------------------------------------------------- specifications
CallStep(c) ==
    \/ handle_voice_call(c)
    \/ GreetingNoSpeech(c)
    \/ \E SpeechResult \in SpeechInputs : process_speech_query(c, SpeechResult)
    \/ SelectionTimeout(c)
    \/ \E Digits \in DigitInputs : book_appointment_slot_endpoint(c, Digits)
    \/ \E notified \in BOOLEAN : book_appointment_slot_endpoint_book(c, notified)
    \/ fallback_to_human(c)

ApiStep ==
    \/ get_appointment_slots
    \/ \E r \in Reqs, slot_id \in RequestedIds, t \in Timestamps :
           book_slot_api(r, slot_id, t)
    \/ \E r \in Reqs, notified \in BOOLEAN : book_slot_api_notify(r, notified)

\* The store answers every query.
Next ==
    \/ \E c \in Calls : CallStep(c)
    \/ ApiStep

Spec == Init /\ [][Next]_vars

\* The store may stop answering and come back at any time.
NextStoreFail ==
    \/ Next
    \/ StoreGoesDown
    \/ StoreComesBack

SpecStoreFail == Init /\ [][NextStoreFail]_vars

\* Slots may share a time, and the store may return the rows of one time
\* in either order, differently from one query to the next; it may also
\* stop answering and come back.  A listing is the store's answer whoever
\* asks: one call and the API clients make every order of listings,
\* outages, reorderings and reservations.
NextTies ==
    \/ CallStep(CHOOSE c \in Calls : \A d \in Calls : c <= d)
    \/ ApiStep
    \/ StoreGoesDown
    \/ StoreComesBack
    \/ StoreReorders

SpecTies == InitFrom({TiedTable}) /\ [][NextTies]_vars

\* The telephony provider runs every response to its end: it posts the
\* gathered input to the action URL or, on silence, goes on to the verb
\* after the gather, and it follows every redirect.  So a call's next step
\* is taken eventually.  The API clients and the store promise nothing.
\* Behaviours start from the scarce table, where a caller can be read a
\* menu, find a slot gone, and find every slot gone.
FairSpec ==
    /\ InitFrom({ScarceTable})
    /\ [][NextStoreFail]_vars
    /\ \A c \in Calls : WF_vars(CallStep(c))

\* =============================================================== claims
\* The actors that called book_appointment_slot on slot s, and those among
\* them whose call returned TRUE.
Reservers(s) == {a \in Actors : resv[a].called /\ resv[a].slot = s}
Winners(s) == {a \in Reservers(s) : resv[a].ret}

\* The digits a call pressed, as a menu position (0 when they name none:
\* nothing pressed, "0", no integer, or one of more than nine digits).
Pressed(c) ==
    LET n == ParseInt(digits[c])
    IN  IF digits[c] # NotPressed /\ digits[c] # <<48>> /\ n.ok
           /\ Len(n.mag) <= 9
        THEN IntValue(n)
        ELSE 0

InMenu(c) == Pressed(c) >= 1 /\ Pressed(c) <= Len(menu[c])

\* C1 (mutual exclusion): for every slot that was free when the calls began,
\* however many voice calls and API requests have called Reserve on it and
\* in whatever order their store queries ran, exactly one of the calls
\* returned true, and the slot is booked and held by that winner.
C1_MutualExclusion ==
    \A s \in SlotIds :
        (slots[s].call_sid # PriorSid /\ Reservers(s) # {}) =>
            /\ Cardinality(Winners(s)) = 1
            /\ slots[s].booked = TRUE
            /\ \A w \in Winners(s) : slots[s].call_sid = resv[w].holder

\* Two voice calls and an API request, with pairwise distinct holder
\* references, have all called Reserve on the same slot: the two calls both
\* chose it before either booked it.
C1_Witness ==
    \E s \in SlotIds :
        /\ slots[s].call_sid # PriorSid
        /\ \E c1, c2 \in Calls, r \in Reqs :
              /\ c1 # c2
              /\ {VoiceActor(c1), VoiceActor(c2), ApiActor(r)} \subseteq Reservers(s)
              /\ resv[ApiActor(r)].holder # resv[VoiceActor(c1)].holder
              /\ resv[ApiActor(r)].holder # resv[VoiceActor(c2)].holder
              /\ resv[VoiceActor(c1)].holder # resv[VoiceActor(c2)].holder

\* C2 (snapshot integrity): once a call that was read a menu of K slots has
\* pressed digit i, 1 <= i <= K, and /book_slot has resolved the digit, the
\* slot it goes on to reserve is the one at position i of that menu.
C2_SnapshotIntegrity ==
    \A c \in Calls : InMenu(c) => selected[c] = menu[c][Pressed(c)]

\* C3: two calls that were read the same menu and pressed the same digit of
\* it, with no API request reserving anything, once both sessions are over:
\* exactly one was confirmed and the other was told the slot is no longer
\* available and sent to the reception line.
C3_SameDigitOneWinner ==
    \A c1, c2 \in Calls :
        ( /\ c1 # c2
          /\ menu[c1] = menu[c2]
          /\ InMenu(c1) /\ InMenu(c2)
          /\ Pressed(c1) = Pressed(c2)
          /\ pc[c1] \in {"Confirmed", "Fallback"}
          /\ pc[c2] \in {"Confirmed", "Fallback"}
          /\ \A r \in Reqs : ~resv[ApiActor(r)].called )
        => \E w, l \in {c1, c2} :
              /\ w # l
              /\ pc[w] = "Confirmed"
              /\ pc[l] = "Fallback" /\ said[l] = "NoLongerAvailable"

\* C4 (no double booking): once a slot is booked its record never changes
\* again (same holder, still booked), and every Reserve called on it from
\* then on returns false.
C4_NoDoubleBooking ==
    [][\A s \in SlotIds :
          slots[s].booked = TRUE =>
              /\ slots'[s] = slots[s]
              /\ \A a \in Actors :
                    (~resv[a].called /\ resv'[a].called /\ resv'[a].slot = s)
                        => resv'[a].ret = FALSE]_vars

\* A Reserve with another holder was called on a slot an actor had already
\* booked; it returned false and the slot kept its first holder.
C4_Witness ==
    \E a, b \in Actors :
        /\ a # b
        /\ resv[a].called /\ resv[a].ret = TRUE
        /\ resv[b].called /\ resv[b].ret = FALSE
        /\ resv[b].slot = resv[a].slot
        /\ resv[b].holder # resv[a].holder
        /\ slots[resv[a].slot].call_sid = resv[a].holder

\* C5 (slot invariant): a slot that is not booked has no holder, and a
\* booked slot has one.
C5_SlotInvariant ==
    \A s \in SlotIds :
        /\ slots[s].booked = FALSE => slots[s].call_sid = NoHolder
        /\ slots[s].booked = TRUE => slots[s].call_sid # NoHolder

\* A voice call and an API request have each booked a slot and another
\* slot is still free.
C5_Witness ==
    /\ \E c \in Calls : resv[VoiceActor(c)].ret = TRUE
    /\ \E r \in Reqs : resv[ApiActor(r)].ret = TRUE
    /\ \E s \in SlotIds : slots[s].booked = FALSE

\* C6 (Reserve's result and frame): a Reserve call returns true exactly
\* when the slot exists and was not booked when the query ran; then only
\* that slot's booked flag and holder change; when it returns false the
\* table is unchanged.
C6_ReserveFrame ==
    [][\A a \in Actors :
          (~resv[a].called /\ resv'[a].called) =>
              LET s == resv'[a].slot
              IN  /\ resv'[a].ret = (s \in SlotIds /\ slots[s].booked = FALSE)
                  /\ resv'[a].ret = TRUE =>
                        slots' = [slots EXCEPT
                                    ![s] = [slot_time |-> slots[s].slot_time,
                                            booked |-> TRUE,
                                            call_sid |-> resv'[a].holder]]
                  /\ resv'[a].ret = FALSE => slots' = slots]_vars

\* All three outcomes have happened: a Reserve on an absent slot id
\* returned false, one on a booked slot returned false, and one on a free
\* slot returned true while other slots stayed free.
C6_Witness ==
    /\ \E a \in Actors :
          resv[a].called /\ resv[a].slot \notin SlotIds /\ resv[a].ret = FALSE
    /\ \E a, b \in Actors :
          /\ resv[a].called /\ resv[a].ret = TRUE
          /\ resv[b].called /\ resv[b].ret = FALSE /\ resv[b].slot = resv[a].slot
    /\ \E s \in SlotIds : slots[s].booked = FALSE

\* C7 (terminal coverage): every call that was greeted ends in Confirmed
\* or in Fallback, whatever the caller says or presses and whether or not
\* the store answers; the session then stays there; Confirmed is reached by
\* a hang-up and Fallback by dialling the reception line.
C7_TerminalCoverage ==
    /\ \A c \in Calls :
          (pc[c] = "Greeting") ~> (pc[c] \in {"Confirmed", "Fallback"})
    /\ [][\A c \in Calls :
             pc[c] \in {"Confirmed", "Fallback"} => pc'[c] = pc[c]]_vars
    /\ [](\A c \in Calls :
             /\ pc[c] = "Confirmed" => directive[c] = "hangup"
             /\ pc[c] = "Fallback" => directive[c] = "dial")

\* One call was confirmed and the other ended at the reception line after
\* the store failed its reservation.
C7_Witness ==
    \E c1, c2 \in Calls :
        /\ pc[c1] = "Confirmed"
        /\ pc[c2] = "Fallback" /\ said[c2] = "NoLongerAvailable"
        /\ ~storeUp

\* Whether a sequence of slot ids is in ascending slot-time order.
TimeOrdered(ids) ==
    \A m, n \in 1..Len(ids) :
        m < n => slots[ids[m]].slot_time < slots[ids[n]].slot_time

\* C8 (the booking scenario): a call was read the free slots in time order
\* as digits 1..N and pressed digit i, 1 <= i <= N, and nobody else's
\* reservation landed between the menu and the call's own; once /book_slot
\* has answered, Reserve was called on the i-th slot of the menu with the
\* call's identifier and returned true, the call is confirmed with that
\* slot's time, and the slot is booked and held by the call.
C8_BookingScenario ==
    \A c \in Calls :
        ( /\ InMenu(c)
          /\ ~raced[c]
          /\ pc[c] \in {"Confirmed", "Redirect", "Fallback"} )
        => LET s == menu[c][Pressed(c)]
           IN  /\ TimeOrdered(menu[c])
               /\ resv[VoiceActor(c)] =
                     [called |-> TRUE, slot |-> s, holder |-> CallSid(c),
                      ret |-> TRUE]
               /\ pc[c] = "Confirmed"
               /\ said[c] = "Booked"
               /\ confirmed_time[c] = slots[s].slot_time
               /\ slots[s].booked = TRUE
               /\ slots[s].call_sid = CallSid(c)

\* A call was read a menu of four slots whose time order is not the id
\* order, pressed 2, and was confirmed with nobody else reserving meanwhile.
C8_Witness ==
    \E c \in Calls :
        /\ Len(menu[c]) = MenuLimit
        /\ menu[c][1] > menu[c][2]
        /\ Pressed(c) = 2
        /\ ~raced[c]
        /\ pc[c] = "Confirmed"

\* The free slots of the table.
Available == {i \in SlotIds : slots[i].booked = FALSE}

\* C9 (ListAvailable): the latest get_available_slots result, read from a
\* table that no reservation has touched since, has at most `limit` rows,
\* every row is a slot that is not booked in that table, the rows are in
\* ascending slot-time order, and it is the empty sequence when no slot is
\* free.
C9_ListAvailable ==
    lastList.fn = "get_available_slots" =>
        /\ Len(lastList.data) <= lastList.limit
        /\ \A n \in 1..Len(lastList.data) :
              /\ lastList.data[n].booked = FALSE
              /\ lastList.data[n].id \in Available
              /\ lastList.data[n] = Row(slots, lastList.data[n].id)
        /\ \A m, n \in 1..Len(lastList.data) :
              m < n => lastList.data[m].slot_time < lastList.data[n].slot_time
        /\ Available = {} => lastList.data = <<>>

\* A listing was cut to the limit: more slots are free than it returned,
\* and their time order is not their id order.
C9_Witness ==
    /\ lastList.fn = "get_available_slots"
    /\ Len(lastList.data) = MenuLimit
    /\ Cardinality(Available) > MenuLimit
    /\ lastList.data[1].id > lastList.data[2].id

TiedSlot(S, i) ==
    \E j \in DOMAIN S \ {i} :
        /\ S[j].booked = FALSE
        /\ S[j].slot_time = S[i].slot_time

\* Two listings of table S agree: over the rows both limits allow, they
\* are equally long, name the same time at every position, and name the
\* same row at every position whose time no other free slot shares.
ListingsAgree(S, a, b) ==
    LET m == IF a.limit < b.limit THEN a.limit ELSE b.limit
        p == Limit(a.data, m)
        q == Limit(b.data, m)
    IN  /\ Len(p) = Len(q)
        /\ \A n \in 1..Len(p) :
              /\ p[n].slot_time = q[n].slot_time
              /\ p[n] = q[n] \/ TiedSlot(S, p[n].id)

C11_EmptyListingToFallback ==
    /\ [][\A c \in Calls :
             ( /\ pc[c] = "Greeting" /\ pc'[c] # "Greeting"
               /\ lastList' # lastList
               /\ lastList'.data = <<>> )
             => pc'[c] = "Redirect" /\ said'[c] = "NoSlots"]_vars
    /\ [](\A c \in Calls :
             /\ pc[c] \in {"AwaitingSelection", "Reserving"} => menu[c] # <<>>
             /\ said[c] = "NoSlots" =>
                   /\ pc[c] \in {"Redirect", "Fallback"}
                   /\ menu[c] = <<>>
                   /\ digits[c] = NotPressed
                   /\ selected[c] = 0
                   /\ ~resv[VoiceActor(c)].called)

\* Every slot is booked, and a call that asked to book was given the
\* apology and handed to the reception line.
C11_Witness ==
    /\ \A s \in SlotIds : slots[s].booked = TRUE
    /\ \E c \in Calls : said[c] = "NoSlots" /\ pc[c] = "Fallback"

\* C12 (notification failure): once a Reserve has succeeded, the outcome
\* does not depend on the WhatsApp message.  A call whose Reserve returned
\* true is confirmed and hung up, and every request that attempted a
\* notification, delivered or not, keeps its outcome: the voice call is
\* confirmed and hung up, the API request has answered success, and the
\* slot is booked under the holder that reserved it.
C12_NotificationNeverAltersOutcome ==
    /\ \A c \in Calls :
          /\ resv[VoiceActor(c)].ret = TRUE =>
                pc[c] = "Confirmed" /\ Len(notes[VoiceActor(c)]) = 1
          /\ notes[VoiceActor(c)] # <<>> =>
                /\ pc[c] = "Confirmed"
                /\ said[c] = "Booked"
                /\ directive[c] = "hangup"
                /\ slots[selected[c]].booked = TRUE
                /\ slots[selected[c]].call_sid = CallSid(c)
    /\ \A r \in Reqs :
          notes[ApiActor(r)] # <<>> =>
                /\ apiPc[r] = "done"
                /\ apiResp[r] = 200
                /\ slots[apiSlot[r]].booked = TRUE
                /\ slots[apiSlot[r]].call_sid = apiSid[r]

\* A call and an API request have both booked, and neither message was
\* delivered.
C12_Witness ==
    /\ \E c \in Calls :
          /\ pc[c] = "Confirmed"
          /\ Len(notes[VoiceActor(c)]) = 1
          /\ notes[VoiceActor(c)][1].ok = FALSE
    /\ \E r \in Reqs :
          /\ apiResp[r] = 200
          /\ Len(notes[ApiActor(r)]) = 1
          /\ notes[ApiActor(r)][1].ok = FALSE

\* C13 (store unavailable): a webhook served while the store does not
\* answer still answers the call.  /process_query never presents a menu:
\* it redirects to the reception line, and where it listed, the listing is
\* empty and the prompt is the no-slots apology.  /book_slot either stops
\* at its own listing and redirects, or its Reserve returns false, the
\* table is untouched, the prompt is the no-longer-available one and the
\* call is redirected.  No such step confirms a call, and no call is ever
\* left without a response.
C13_StoreFailureToFallback ==
    /\ [][~storeUp =>
            \A c \in Calls :
              /\ (pc[c] = "Greeting" /\ pc'[c] # "Greeting") =>
                    /\ pc'[c] = "Redirect"
                    /\ said'[c] \in {"Welcome", "DidntCatch", "Assist",
                                   "NoSlots"}
                    /\ lastList' # lastList =>
                          lastList'.data = <<>> /\ said'[c] = "NoSlots"
              /\ (pc[c] = "AwaitingSelection"
                  /\ pc'[c] # "AwaitingSelection") =>
                    /\ pc'[c] = "Redirect"
                    /\ slots' = slots
              /\ (pc[c] = "Reserving" /\ pc'[c] # "Reserving") =>
                    /\ resv'[VoiceActor(c)].called = TRUE
                    /\ resv'[VoiceActor(c)].ret = FALSE
                    /\ said'[c] = "NoLongerAvailable"
                    /\ pc'[c] = "Redirect"
                    /\ slots' = slots
              /\ pc'[c] = "Confirmed" => pc[c] = "Confirmed"]_vars
    /\ [](\A c \in Calls :
             pc[c] \in {"Idle", "Greeting", "AwaitingSelection", "Reserving",
                        "Redirect", "Confirmed", "Fallback"})

\* One call was told no slots while a slot was free, and another was told
\* its slot is no longer available while that slot is still free: both
\* met an outage, and both were handed to the reception line.
C13_Witness ==
    \E c, d \in Calls :
        /\ said[c] = "NoSlots" /\ pc[c] = "Fallback"
        /\ Available # {}
        /\ said[d] = "NoLongerAvailable" /\ pc[d] = "Fallback"
        /\ resv[VoiceActor(d)].ret = FALSE
        /\ slots[selected[d]].booked = FALSE

\* C14 (BookSlot failure): an API request whose Reserve found the slot
\* booked or absent is answered with the client error that names the slot
\* as unavailable (status 400), books nothing and notifies nobody.
\* Stated with the store answering, so that the only reason a Reserve
\* returns false is the slot.
C14_UnavailableIsClientError ==
    \A r \in Reqs :
        ( /\ apiPc[r] = "done"
          /\ resv[ApiActor(r)].called = TRUE
          /\ resv[ApiActor(r)].ret = FALSE ) =>
            /\ apiResp[r] = 400
            /\ notes[ApiActor(r)] = <<>>
            /\ \A s \in SlotIds : slots[s].call_sid # apiSid[r]

\* C15 (BookSlot success): an API request that has answered reports
\* success (status 200) exactly when its own Reserve returned true,
\* whatever became of the fetch of the slot's details and of the
\* notification.
C15_SuccessIffReserved ==
    \A r \in Reqs :
        apiPc[r] = "done" =>
            (apiResp[r] = 200 <=> resv[ApiActor(r)].ret = TRUE)

\* C16 (selection without a slot): a call at the digit menu that pressed
\* 0, pressed nothing before the gather timed out, sent a digit string
\* that is not a number, or pressed a number outside the menu it was read,
\* is handed to the reception line: it is redirected to /fallback, it
\* selected no slot, called no Reserve and sent no notification; the step
\* that handled the input changed no slot record; and the call is never
\* returned to the menu.
C16_NoSlotSelectionToFallback ==
    /\ [](\A c \in Calls :
             ( \/ said[c] = "NoSelection"
               \/ (digits[c] # NotPressed /\ ~InMenu(c)) ) =>
                 /\ pc[c] \in {"Redirect", "Fallback"}
                 /\ said[c] \in {"NoSelection", "Connecting", "Invalid"}
                 /\ selected[c] = 0
                 /\ resv[VoiceActor(c)].called = FALSE
                 /\ notes[VoiceActor(c)] = <<>>)
    /\ [][\A c \in Calls :
             /\ (pc[c] = "AwaitingSelection" /\ pc'[c] = "Redirect") =>
                   slots' = slots /\ resv' = resv
             /\ pc[c] \in {"Redirect", "Fallback"} =>
                   pc'[c] \in {"Redirect", "Fallback"}]_vars

\* Two calls were read menus; one pressed 0 and the other a number past
\* the end of its menu, and both are with the reception line.
C16_Witness ==
    \E c, d \in Calls :
        /\ digits[c] = <<48>> /\ pc[c] = "Fallback"
        /\ Len(menu[d]) >= 1
        /\ Pressed(d) > Len(menu[d]) /\ Pressed(d) <= MaxDigit
        /\ pc[d] = "Fallback"

\* C17 (intent routing): of the utterances a caller may give, only those
\* that contain book, appointment, schedule or reserve in any letter case
\* (Unicode's: the Kelvin sign is a capital of k) lead /process_query to query the store and present slots.  For a
\* missing or empty utterance and for one without such a word, the step
\* redirects the call to the reception line, says the "didn't catch that"
\* or the "let me connect you" prompt, builds no menu, and neither reads
\* nor writes the store.
C17_IntentRouting ==
    [][\A c \in Calls : \A sp \in SpeechInputs :
          LET matching ==
                  { <<66, 111, 111, 107>>,                        \* Book
                    <<114, 101, 83, 67, 72, 69, 68, 85, 76, 69>>, \* reSCHEDULE
                    <<97, 32, 82, 101, 115, 101, 114, 118, 101, 100>>,
                                                                  \* a Reserved
                    <<65, 80, 80, 79, 73, 78, 84, 77, 69, 78, 84>>,
                                                                  \* APPOINTMENT
                    <<98, 111, 111, 8490>> }       \* boo + U+212A KELVIN SIGN
              absent == { SpeechNone, <<>> }
          IN  process_speech_query(c, sp) =>
                /\ ( \/ pc'[c] = "AwaitingSelection"
                     \/ said'[c] \in {"Menu", "NoSlots"}
                     \/ lastList' # lastList ) => sp \in matching
                /\ sp \notin matching =>
                     /\ pc'[c] = "Redirect"
                     /\ directive'[c] = "redirect"
                     /\ said'[c] = IF sp \in absent THEN "DidntCatch"
                                   ELSE "Assist"
                     /\ menu'[c] = <<>>
                     /\ lastList' = lastList
                     /\ slots' = slots
                /\ sp \in matching =>
                     /\ lastList'.fn = "get_available_slots"
                     /\ said'[c] \in {"Menu", "NoSlots"}]_vars

\* One call asked for something else and is with the reception line
\* although slots were free and no listing was made for it; another asked
\* to book and is at the digit menu.
C17_Witness ==
    \E c, d \in Calls :
        /\ said[c] = "Assist" /\ pc[c] = "Fallback" /\ menu[c] = <<>>
        /\ pc[d] = "AwaitingSelection" /\ menu[d] # <<>>

\* C18 (confirmation implies holding): in every state in which a voice
\* call is confirmed, the slot its confirmation names is booked, its
\* holder is that call's CallSid, and the time read back is the slot's;
\* no other call or request was told it booked that slot.
C18_ConfirmedHoldsSlot ==
    \A c \in Calls :
        pc[c] = "Confirmed" =>
            /\ selected[c] \in SlotIds
            /\ slots[selected[c]].booked = TRUE
            /\ slots[selected[c]].call_sid = CallSid(c)
            /\ confirmed_time[c] = slots[selected[c]].slot_time
            /\ Winners(selected[c]) = {VoiceActor(c)}

\* A call is confirmed for a slot that another call and an API request
\* also tried to reserve.
C18_Witness ==
    \E c \in Calls :
        /\ pc[c] = "Confirmed"
        /\ Cardinality(Reservers(selected[c])) = 3

\* C19 (notification only after a successful Reserve): every voice call
\* and API request has attempted at most one notification, and one that
\* attempted it had its own Reserve return true and notified that slot,
\* its time and that holder.  A request whose Reserve failed or was never
\* made (fallback, listing) has notified nobody.
C19_NotifyOnlyAfterReserve ==
    \A a \in Actors :
        /\ Len(notes[a]) <= 1
        /\ notes[a] # <<>> =>
              /\ resv[a].called = TRUE
              /\ resv[a].ret = TRUE
              /\ notes[a][1].slot = resv[a].slot
              /\ notes[a][1].holder = resv[a].holder
              /\ notes[a][1].slot_time = slots[resv[a].slot].slot_time
              /\ slots[resv[a].slot].call_sid = resv[a].holder

\* One call notified its booking; another lost the Reserve on the same
\* slot, notified nobody and is with the reception line.
C19_Witness ==
    \E c, d \in Calls :
        /\ Len(notes[VoiceActor(c)]) = 1
        /\ resv[VoiceActor(d)].called = TRUE
        /\ resv[VoiceActor(d)].ret = FALSE
        /\ resv[VoiceActor(d)].slot = resv[VoiceActor(c)].slot
        /\ notes[VoiceActor(d)] = <<>>
        /\ pc[d] = "Fallback"

\* C20 (one Reserve per call): once a voice call has called Reserve, it
\* never calls it again and is never back at the digit menu: it is hung
\* up as confirmed or handed to the reception line.  So among the rows of
\* the table at most one is held under any one CallSid.
C20_OneReservePerCall ==
    /\ [][\A c \in Calls :
             resv[VoiceActor(c)].called = TRUE =>
                 /\ resv'[VoiceActor(c)] = resv[VoiceActor(c)]
                 /\ pc'[c] \in {"Confirmed", "Redirect", "Fallback"}]_vars
    /\ [](\A c \in Calls :
             /\ Cardinality({s \in SlotIds :
                               slots[s].call_sid = CallSid(c)}) <= 1
             /\ resv[VoiceActor(c)].called = TRUE =>
                   pc[c] \in {"Confirmed", "Redirect", "Fallback"})

\* A call lost its Reserve while another slot was still free, and it is
\* with the reception line holding nothing; the other call holds its one
\* slot.
C20_Witness ==
    \E c, d \in Calls :
        /\ resv[VoiceActor(c)].called = TRUE
        /\ resv[VoiceActor(c)].ret = FALSE
        /\ pc[c] = "Fallback"
        /\ Available # {}
        /\ \A s \in SlotIds : slots[s].call_sid # CallSid(c)
        /\ pc[d] = "Confirmed"
        /\ slots[selected[d]].call_sid = CallSid(d)

====
